---- MODULE Spec2Model ----
(***************************************************************************)
(* Model of the conversation orchestrator (src/src/orchestrator.ts) and    *)
(* of the context store adapter it calls (db.ts, src/unnamed/part_000).    *)
(*                                                                         *)
(* A string is a sequence of one-character strings, so that splitting on   *)
(* whitespace, joining, lower-casing and substring search are computed as   *)
(* the code computes them.  A number the code obtains by a floating-point   *)
(* division (usage ratio, relevance score) is kept as the pair of integers  *)
(* it is the quotient of and compared by cross-multiplication.              *)
(***************************************************************************)
EXTENDS Integers, Sequences, FiniteSets, TLC

\* ------------------------------------------------------------------ bounds

\* Documents ever inserted into the collection.
MaxStore == 7

\* Calls of addMessage in one run.
MaxAdds == 4

\* Largest capacity the orchestrator is constructed with.
MaxCapacity == 5
\* calls of the add command a long session has made before it is observed
LongRunAdds == 23

\* ------------------------------------------------------------ input alphabets

ConvIds == {"c1", "c2"}
Undefined == "undefined"

\* The (llm, userId) pairs callers pass; userId is optional.
Callers == {<<"claude", Undefined>>, <<"gpt", "u1">>}

\* The pair the command-line harness passes to addMessage and createSummary.
CliCallers == {<<"claude", Undefined>>}

\* The pair the archive-context tool is called with.
ToolCallers == {<<"gpt", "u1">>}

\* Values of new Date().getHours() the runs read: a morning, an evening hour.
Hours == {11, 18}

\* Messages a caller passes: "a", "A b", "b".
Messages == {<<"a">>, <<"A", " ", "b">>, <<"b">>}

\* Batches the archive-context tool is called with:
\* ["a b c", "A b", "a", "a b", "a b c d"].
ToolBatches ==
    {<< <<"a", " ", "b", " ", "c">>, <<"A", " ", "b">>, <<"a">>,
        <<"a", " ", "b">>, <<"a", " ", "b", " ", "c", " ", "d">> >>}

\* Messages an earlier run of the archive-context tool left in the collection:
\* "a", "a b", ..., "a b c d e f g h i j" and "j i h g f e d c b a".
BulkLetters == <<"a", "b", "c", "d", "e", "f", "g", "h", "i", "j">>
BulkMessage(n) ==
    [k \in 1..(2 * n - 1) |-> IF k % 2 = 1 THEN BulkLetters[(k + 1) \div 2]
                                            ELSE " "]
BulkBatch ==
    [n \in 1..(Len(BulkLetters) + 1) |->
        IF n <= Len(BulkLetters) THEN BulkMessage(n)
        ELSE [k \in 1..(2 * Len(BulkLetters) - 1) |->
                 BulkMessage(Len(BulkLetters))[2 * Len(BulkLetters) - k]]]

\* Batches two earlier runs of the archive-context tool left for "c1":
\* ["a", "a b", "b", "a b c d"], then ["a", "a b", "a b c", "c"]; and the
\* batch one of them left for "c2": ["A"], a text no caller passes as a message.
OlderBatch ==
    << <<"a">>, <<"a", " ", "b">>, <<"b">>,
       <<"a", " ", "b", " ", "c", " ", "d">> >>
NewerBatch ==
    << <<"a">>, <<"a", " ", "b">>, <<"a", " ", "b", " ", "c">>, <<"c">> >>
OtherBatch == << <<"A">> >>

\* Messages and tool batches that exercise the scorer: "a", "a " and "b";
\* ["", "a", "A b"].
ScoreMessages == {<<"a">>, <<"a", " ">>, <<"b">>}
ScoreBatches == {<< <<>>, <<"a">>, <<"A", " ", "b">> >>}

\* Messages the caller passes on top of that collection: "a", "b".
BulkMessages == {<<"a">>, <<"b">>}

\* Messages the caller passes while the tools are in use: "a".
ToolsMessages == {<<"a">>}

\* Messages two interleaved callers pass: "a".
InterleavedMessages == {<<"a">>}

\* Memory lists the save-memories tool is called with: ["a b"].
ToolMemories == {<< <<"a", " ", "b">> >>}

\* Tags the archive-context tool is called with.
ToolTags == {<<"t">>}

\* Summary texts a caller passes: "a b".
SummaryTexts == {<<"a", " ", "b">>}

\* Capacities the orchestrator is constructed with (constructor argument).
Capacities == {MaxCapacity}

\* ---------------------------------------------------------------- strings

\* Characters matched by the regular expression \s.
Whitespace == {" "}

\* String.prototype.toLowerCase on one character.
LowerChar(ch) ==
    IF ch = "A" THEN "a" ELSE IF ch = "B" THEN "b" ELSE ch

toLowerCase(s) == [i \in 1..Len(s) |-> LowerChar(s[i])]

RECURSIVE SplitRec(_, _, _, _)
SplitRec(s, i, acc, cur) ==
    IF i > Len(s) THEN Append(acc, cur)
    ELSE IF s[i] \in Whitespace
         THEN IF i > 1 /\ s[i - 1] \in Whitespace
              THEN SplitRec(s, i + 1, acc, cur)
              ELSE SplitRec(s, i + 1, Append(acc, cur), <<>>)
         ELSE SplitRec(s, i + 1, acc, Append(cur, s[i]))

\* text.split(/\s+/): the pieces between maximal runs of whitespace; a leading
\* or trailing run yields an empty piece, the empty string yields [""].
Split(s) == SplitRec(s, 1, <<>>, <<>>)

RECURSIVE Join(_, _)
\* Array.prototype.join
Join(strs, sep) ==
    IF Len(strs) = 0 THEN <<>>
    ELSE IF Len(strs) = 1 THEN strs[1]
    ELSE strs[1] \o sep \o Join(Tail(strs), sep)

\* String.prototype.includes
Includes(text, sub) ==
    \E i \in 0..(Len(text) - Len(sub)) :
        \A j \in 1..Len(sub) : text[i + j] = sub[j]

SeqSet(s) == {s[i] : i \in 1..Len(s)}

RECURSIVE SumSeq(_)
SumSeq(ns) == IF Len(ns) = 0 THEN 0 ELSE ns[1] + SumSeq(Tail(ns))

\* ------------------------------------------------------------ orchestrator

ARCHIVE_THRESHOLD == <<4, 5>>    \* 0.8
RETRIEVE_THRESHOLD == <<3, 10>>  \* 0.3

getWordCount(text) == Len(Split(text))

\* a changed RatioLT: the threshold itself counts as below
RatioLE(state, th) == state.totalWordCount * th[2] <= th[1] * state.maxWordCount

\* state.totalWordCount / state.maxWordCount compared with a threshold n/d
RatioLT(state, th) == state.totalWordCount * th[2] < th[1] * state.maxWordCount
RatioGT(state, th) == state.totalWordCount * th[2] > th[1] * state.maxWordCount

\* Math.floor(n * 0.3); for the lengths of the model the double product rounds
\* to the same integer as the exact quotient.
\* a changed Floor03: 30% rounded up
Ceil03(n) == (3 * n + 9) \div 10

Floor03(n) == (3 * n) \div 10

Keyword(name, chars) == [name |-> name, chars |-> chars]

\* the keywords array of generateTags, in iteration order
Keywords == <<
    Keyword("code", <<"c","o","d","e">>),
    Keyword("programming", <<"p","r","o","g","r","a","m","m","i","n","g">>),
    Keyword("technical", <<"t","e","c","h","n","i","c","a","l">>),
    Keyword("api", <<"a","p","i">>),
    Keyword("database", <<"d","a","t","a","b","a","s","e">>),
    Keyword("frontend", <<"f","r","o","n","t","e","n","d">>),
    Keyword("backend", <<"b","a","c","k","e","n","d">>),
    Keyword("design", <<"d","e","s","i","g","n">>),
    Keyword("ui", <<"u","i">>),
    Keyword("ux", <<"u","x">>),
    Keyword("user", <<"u","s","e","r">>),
    Keyword("interface", <<"i","n","t","e","r","f","a","c","e">>),
    Keyword("data", <<"d","a","t","a">>),
    Keyword("analysis", <<"a","n","a","l","y","s","i","s">>),
    Keyword("research", <<"r","e","s","e","a","r","c","h">>),
    Keyword("writing", <<"w","r","i","t","i","n","g">>),
    Keyword("content", <<"c","o","n","t","e","n","t">>),
    Keyword("creative", <<"c","r","e","a","t","i","v","e">>),
    Keyword("business", <<"b","u","s","i","n","e","s","s">>),
    Keyword("strategy", <<"s","t","r","a","t","e","g","y">>),
    Keyword("planning", <<"p","l","a","n","n","i","n","g">>) >>

RECURSIVE MatchedKeywords(_, _)
MatchedKeywords(allText, i) ==
    IF i > Len(Keywords) THEN <<>>
    ELSE (IF Includes(allText, Keywords[i].chars)
          THEN <<Keywords[i].name>> ELSE <<>>)
         \o MatchedKeywords(allText, i + 1)

TimeTag(hour) ==
    IF hour < 12 THEN "morning"
    ELSE IF hour < 18 THEN "afternoon" ELSE "evening"

\* hour is new Date().getHours() at the call
generateTags(messages, hour) ==
    LET allText == toLowerCase(Join(messages, <<" ">>))
        tags == MatchedKeywords(allText, 1) \o <<TimeTag(hour)>>
    IN  IF Len(tags) > 0 THEN tags ELSE <<"general">>

\* ------------------------------------------------------------ store adapter

None == <<>>
Some(x) == <<x>>

\* a changed archiveContext: the last message of the batch is not stored
archiveContextOneShort(conversationId, contextMessages, tags, llm, userId, t, id0) ==
    [i \in 1..(Len(contextMessages) - 1) |->
        [_id |-> id0 + i - 1,
         memories |-> <<contextMessages[i]>>,
         timestamp |-> t,
         llm |-> llm,
         userId |-> userId,
         conversationId |-> conversationId,
         contextType |-> "archived",
         relevanceScore |-> None,
         tags |-> Some(tags),
         parentContextId |-> None,
         messageIndex |-> Some(i - 1),
         wordCount |-> Some(Len(Split(contextMessages[i]))),
         summaryText |-> None]]

\* One document per message: archivedItems of archiveContext, in batch order;
\* the i-th gets the identifier id0 + i - 1 and the clock reading t.
archiveContext(conversationId, contextMessages, tags, llm, userId, t, id0) ==
    [i \in 1..Len(contextMessages) |->
        [_id |-> id0 + i - 1,
         memories |-> <<contextMessages[i]>>,
         timestamp |-> t,
         llm |-> llm,
         userId |-> userId,
         conversationId |-> conversationId,
         contextType |-> "archived",
         relevanceScore |-> None,
         tags |-> Some(tags),
         parentContextId |-> None,
         messageIndex |-> Some(i - 1),
         wordCount |-> Some(Len(Split(contextMessages[i]))),
         summaryText |-> None]]

\* relevanceScore >= n/d for a present score; an absent score matches no $gte
ScoreGTE(doc, th) ==
    /\ doc.relevanceScore # None
    /\ doc.relevanceScore[1][1] * th[2] >= th[1] * doc.relevanceScore[1][2]

\* a changed SortsBefore: equal scores put the older document first
SortsBeforeOldestFirst(a, b) ==
    LET sa == a.relevanceScore[1]
        sb == b.relevanceScore[1]
    IN  \/ sa[1] * sb[2] > sb[1] * sa[2]
        \/ /\ sa[1] * sb[2] = sb[1] * sa[2]
           /\ a.timestamp <= b.timestamp

\* sort key {relevanceScore: -1, timestamp: -1}: a may come before b
SortsBefore(a, b) ==
    LET sa == a.relevanceScore[1]
        sb == b.relevanceScore[1]
    IN  \/ sa[1] * sb[2] > sb[1] * sa[2]
        \/ /\ sa[1] * sb[2] = sb[1] * sa[2]
           /\ a.timestamp >= b.timestamp

Take(s, n) == SubSeq(s, 1, IF Len(s) < n THEN Len(s) ELSE n)

RECURSIVE SortedOrders(_, _)
\* The orders .sort({relevanceScore: -1, timestamp: -1}) may put the documents
\* at positions S in: documents equal on both keys come in any order.
SortedOrders(docs, S) ==
    IF S = {} THEN {<<>>}
    ELSE UNION {{<<docs[x]>> \o rest : rest \in SortedOrders(docs, S \ {x})} :
                  x \in {y \in S : \A z \in S : SortsBefore(docs[y], docs[z])}}

\* a changed retrieveContext: a document without a score passes the floor
\* and sorts after the scored ones
retrieveContextAbsentPasses(docs, conversationId, minRelevanceScore, limit) ==
    LET match == {i \in 1..Len(docs) :
                    /\ docs[i].conversationId = conversationId
                    /\ docs[i].contextType = "archived"
                    /\ ScoreGTE(docs[i], minRelevanceScore)}
        IsUnscored(d) == /\ d.conversationId = conversationId
                         /\ d.contextType = "archived"
                         /\ d.relevanceScore = None
    IN  {Take(sorted \o SelectSeq(docs, IsUnscored), limit) :
            sorted \in SortedOrders(docs, match)}

\* a changed retrieveContext: the filter leaves out conversationId
retrieveContextAnyConversation(docs, conversationId, minRelevanceScore, limit) ==
    LET match == {i \in 1..Len(docs) :
                    /\ docs[i].contextType = "archived"
                    /\ ScoreGTE(docs[i], minRelevanceScore)}
    IN  {Take(sorted, limit) : sorted \in SortedOrders(docs, match)}

\* The results retrieveContext may return (no tag filter): the matching
\* documents sorted, cut at limit.
retrieveContext(docs, conversationId, minRelevanceScore, limit) ==
    LET match == {i \in 1..Len(docs) :
                    /\ docs[i].conversationId = conversationId
                    /\ docs[i].contextType = "archived"
                    /\ ScoreGTE(docs[i], minRelevanceScore)}
    IN  {Take(sorted, limit) : sorted \in SortedOrders(docs, match)}

\* a changed Jaccard: the overlap is divided by the size of the query's set
JaccardOverQuery(currentContext, itemText) ==
    LET currentWords == SeqSet(Split(toLowerCase(currentContext)))
        itemWords == SeqSet(Split(toLowerCase(itemText)))
    IN  <<Cardinality(currentWords \cap itemWords), Cardinality(currentWords)>>

\* intersection.size / union.size of the two token sets, as <<size, size>>
Jaccard(currentContext, itemText) ==
    LET currentWords == SeqSet(Split(toLowerCase(currentContext)))
        itemWords == SeqSet(Split(toLowerCase(itemText)))
    IN  <<Cardinality(currentWords \cap itemWords),
          Cardinality(currentWords \cup itemWords)>>

\* a changed scoreRelevance: the filter leaves out conversationId
scoreRelevanceAnyConversation(docs, conversationId, currentContext) ==
    [i \in 1..Len(docs) |->
        IF docs[i].contextType = "archived"
        THEN [docs[i] EXCEPT !.relevanceScore =
                 Some(Jaccard(currentContext, Join(docs[i].memories, <<" ">>)))]
        ELSE docs[i]]

\* The collection after scoreRelevance: every archived document of the
\* conversation carries its score against currentContext.
scoreRelevance(docs, conversationId, currentContext) ==
    [i \in 1..Len(docs) |->
        IF /\ docs[i].conversationId = conversationId
           /\ docs[i].contextType = "archived"
        THEN [docs[i] EXCEPT !.relevanceScore =
                 Some(Jaccard(currentContext, Join(docs[i].memories, <<" ">>)))]
        ELSE docs[i]]

\* The collection when scoreRelevance is cut short after n of its updateOne
\* calls: the first n archived documents of the conversation, in the order
\* find returned them, carry the new score.
scoreRelevanceUpTo(docs, conversationId, currentContext, n) ==
    LET IsItem(i) == /\ docs[i].conversationId = conversationId
                     /\ docs[i].contextType = "archived"
        Before(i) == Cardinality({k \in 1..(i - 1) : IsItem(k)})
    IN  [i \in 1..Len(docs) |->
            IF IsItem(i) /\ Before(i) < n
            THEN [docs[i] EXCEPT !.relevanceScore =
                     Some(Jaccard(currentContext,
                                  Join(docs[i].memories, <<" ">>)))]
            ELSE docs[i]]

\* a changed createSummary: only items not yet linked to a summary are linked
createSummaryLinkOnce(docs, conversationId, contextItems, summaryText, llm, userId, t, summaryId) ==
    LET summaryDoc ==
            [_id |-> summaryId,
             memories |-> <<summaryText>>,
             timestamp |-> t,
             llm |-> llm,
             userId |-> userId,
             conversationId |-> conversationId,
             contextType |-> "summary",
             relevanceScore |-> None,
             tags |-> None,
             parentContextId |-> None,
             messageIndex |-> None,
             wordCount |-> Some(Len(Split(summaryText))),
             summaryText |-> Some(summaryText)]
        inserted == Append(docs, summaryDoc)
        itemIds == {contextItems[i]._id : i \in 1..Len(contextItems)}
    IN  [i \in 1..Len(inserted) |->
            IF inserted[i]._id \in itemIds /\ inserted[i].parentContextId = None
            THEN [inserted[i] EXCEPT !.contextType = "archived",
                                     !.parentContextId = Some(summaryId)]
            ELSE inserted[i]]

\* The collection after createSummary: the summary document inserted with
\* identifier summaryId, then every document whose _id is among contextItems'
\* re-typed "archived" and linked to the summary.
createSummary(docs, conversationId, contextItems, summaryText, llm, userId, t, summaryId) ==
    LET summaryDoc ==
            [_id |-> summaryId,
             memories |-> <<summaryText>>,
             timestamp |-> t,
             llm |-> llm,
             userId |-> userId,
             conversationId |-> conversationId,
             contextType |-> "summary",
             relevanceScore |-> None,
             tags |-> None,
             parentContextId |-> None,
             messageIndex |-> None,
             wordCount |-> Some(Len(Split(summaryText))),
             summaryText |-> Some(summaryText)]
        inserted == Append(docs, summaryDoc)
        itemIds == {contextItems[i]._id : i \in 1..Len(contextItems)}
    IN  [i \in 1..Len(inserted) |->
            IF inserted[i]._id \in itemIds
            THEN [inserted[i] EXCEPT !.contextType = "archived",
                                     !.parentContextId = Some(summaryId)]
            ELSE inserted[i]]

\* The collection after clearAllMemories: deleteMany({}) matches every
\* document.
clearAllMemories(docs) == <<>>

\* deletedCount of clearAllMemories
deletedCount(docs) == Len(docs)

\* The collection after saveMemories: one document with the four fields set.
saveMemories(docs, memories, llm, userId, t, id) ==
    Append(docs, [_id |-> id,
                  memories |-> memories,
                  timestamp |-> t,
                  llm |-> llm,
                  userId |-> userId,
                  conversationId |-> Undefined,
                  contextType |-> Undefined,
                  relevanceScore |-> None,
                  tags |-> None,
                  parentContextId |-> None,
                  messageIndex |-> None,
                  wordCount |-> None,
                  summaryText |-> None])

\* ---------------------------------------------------------- orchestrator

VARIABLES
    conversations,  \* the Map conversationId -> ConversationState
    maxWordCount,   \* the capacity the orchestrator was constructed with
    store,          \* the collection, in insertion order
    nextId,         \* the ObjectId the next inserted document gets
    now,            \* the clock new Date() reads
    adds,           \* calls of addMessage so far
    pc,             \* where the caller of addMessage stands
    held,           \* what the last addMessage returned to its caller
    other,          \* pc and held of a second caller, waiting for its turn
    last            \* the last call: operation, conversation, outcome

vars ==
    <<conversations, maxWordCount, store, nextId, now, adds, pc, held, other,
      last>>

Has(c) == c \in DOMAIN conversations

\* a changed initializeConversation: the state is set whether present or not
initializeConversationAlways(convs, conversationId, llm, userId) ==
    [c \in DOMAIN convs \cup {conversationId} |->
        IF c = conversationId
        THEN [conversationId |-> conversationId,
              currentContext |-> <<>>,
              archivedContext |-> <<>>,
              summaries |-> <<>>,
              totalWordCount |-> 0,
              maxWordCount |-> maxWordCount,
              llm |-> llm,
              userId |-> userId]
        ELSE convs[c]]

\* The Map after initializeConversation
initializeConversation(convs, conversationId, llm, userId) ==
    IF conversationId \in DOMAIN convs THEN convs
    ELSE [c \in DOMAIN convs \cup {conversationId} |->
            IF c = conversationId
            THEN [conversationId |-> conversationId,
                  currentContext |-> <<>>,
                  archivedContext |-> <<>>,
                  summaries |-> <<>>,
                  totalWordCount |-> 0,
                  maxWordCount |-> maxWordCount,
                  llm |-> llm,
                  userId |-> userId]
            ELSE convs[c]]

\* state after lines 90-91 of addMessage
PushMessage(state, message) ==
    [state EXCEPT !.currentContext = Append(@, message),
                  !.totalWordCount = @ + getWordCount(message)]

shouldArchive(state, hour) ==
    IF RatioLT(state, ARCHIVE_THRESHOLD)
    THEN [shouldArchive |-> FALSE,
          messagesToArchive |-> <<>>,
          tags |-> <<>>,
          reason |-> "Below archive threshold"]
    ELSE LET messagesToArchive ==
                 SubSeq(state.currentContext, 1,
                        Floor03(Len(state.currentContext)))
         IN  [shouldArchive |-> TRUE,
              messagesToArchive |-> messagesToArchive,
              tags |-> generateTags(messagesToArchive, hour),
              reason |-> "Context usage at threshold, archiving oldest messages"]

\* The collection when shouldRetrieve returns: re-scored unless the usage
\* ratio is above the retrieve threshold.
shouldRetrieveStore(state, docs) ==
    IF RatioGT(state, RETRIEVE_THRESHOLD) THEN docs
    ELSE scoreRelevance(docs, state.conversationId,
                        Join(state.currentContext, <<" ">>))

\* The decisions shouldRetrieve may return, docs being the collection it reads
\* after the re-score.
shouldRetrieve(state, docs) ==
    IF RatioGT(state, RETRIEVE_THRESHOLD)
    THEN {[shouldRetrieve |-> FALSE,
           contextToRetrieve |-> <<>>,
           reason |-> "Above retrieve threshold"]}
    ELSE {IF Len(relevantContext) = 0
          THEN [shouldRetrieve |-> FALSE,
                contextToRetrieve |-> <<>>,
                reason |-> "No relevant archived content found"]
          ELSE [shouldRetrieve |-> TRUE,
                contextToRetrieve |-> relevantContext,
                reason |-> "Context usage low, retrieving relevant archived items"]
          : relevantContext \in
                retrieveContext(docs, state.conversationId, <<2, 10>>, 5)}

\* a changed RemoveArchived: the window is cut, the count is left as it was
RemoveArchivedKeepCount(state, messagesToArchive) ==
    [state EXCEPT
        !.currentContext = SubSeq(@, Len(messagesToArchive) + 1, Len(@))]

\* a changed RemoveArchived: the newest entries are dropped, not the oldest
RemoveArchivedFromEnd(state, messagesToArchive) ==
    LET archivedWordCount ==
            SumSeq([i \in 1..Len(messagesToArchive) |->
                       getWordCount(messagesToArchive[i])])
    IN  [state EXCEPT
            !.currentContext = SubSeq(@, 1, Len(@) - Len(messagesToArchive)),
            !.totalWordCount = @ - archivedWordCount]

\* state after lines 196-204 of executeArchive
RemoveArchived(state, messagesToArchive) ==
    LET archivedWordCount ==
            SumSeq([i \in 1..Len(messagesToArchive) |->
                       getWordCount(messagesToArchive[i])])
    IN  [state EXCEPT
            !.currentContext = SubSeq(@, Len(messagesToArchive) + 1, Len(@)),
            !.totalWordCount = @ - archivedWordCount]

RECURSIVE UnshiftIfAbsent(_, _)
\* a changed Unshift: an item whose content the window holds is skipped
UnshiftIfAbsent(state, items) ==
    IF Len(items) = 0 THEN state
    ELSE LET content == Join(items[1].memories, <<" ">>)
         IN  IF content \in SeqSet(state.currentContext)
             THEN UnshiftIfAbsent(state, Tail(items))
             ELSE UnshiftIfAbsent(
                      [state EXCEPT
                          !.currentContext = <<content>> \o @,
                          !.totalWordCount = @ + getWordCount(content)],
                      Tail(items))

RECURSIVE UnshiftWithinCapacity(_, _)
\* a changed Unshift: an item that would bring the ratio to 0.8 is skipped
UnshiftWithinCapacity(state, items) ==
    IF Len(items) = 0 THEN state
    ELSE LET content == Join(items[1].memories, <<" ">>)
         IN  IF 5 * (state.totalWordCount + getWordCount(content))
                   >= 4 * state.maxWordCount
             THEN UnshiftWithinCapacity(state, Tail(items))
             ELSE UnshiftWithinCapacity(
                      [state EXCEPT
                          !.currentContext = <<content>> \o @,
                          !.totalWordCount = @ + getWordCount(content)],
                      Tail(items))

RECURSIVE UnshiftAll(_, _)
\* a changed Unshift: the items are put in front in the order listed
UnshiftAll(state, items) ==
    IF Len(items) = 0 THEN state
    ELSE LET content == Join(items[Len(items)].memories, <<" ">>)
         IN  UnshiftAll([state EXCEPT
                            !.currentContext = <<content>> \o @,
                            !.totalWordCount = @ + getWordCount(content)],
                        SubSeq(items, 1, Len(items) - 1))

RECURSIVE Unshift(_, _)
\* state after the loop of executeRetrieval over items
Unshift(state, items) ==
    IF Len(items) = 0 THEN state
    ELSE LET content == Join(items[1].memories, <<" ">>)
         IN  Unshift([state EXCEPT
                         !.currentContext = <<content>> \o @,
                         !.totalWordCount = @ + getWordCount(content)],
                     Tail(items))

\* recommendations of getConversationStatus
\* a changed Recommendations: every band is tested on its own
RecommendationsEveryBand(state) ==
    (IF state.totalWordCount * 10 > 9 * state.maxWordCount
     THEN <<"nearly full">> ELSE <<>>)
    \o (IF state.totalWordCount * 10 > 7 * state.maxWordCount
        THEN <<"consider archiving">> ELSE <<>>)
    \o (IF state.totalWordCount * 5 < state.maxWordCount
        THEN <<"consider retrieving">> ELSE <<>>)
    \o (IF Len(state.archivedContext) > 20
        THEN <<"consider summarizing">> ELSE <<>>)

Recommendations(state) ==
    (IF state.totalWordCount * 10 > 9 * state.maxWordCount
     THEN <<"nearly full">>
     ELSE IF state.totalWordCount * 10 > 7 * state.maxWordCount
     THEN <<"consider archiving">>
     ELSE IF state.totalWordCount * 5 < state.maxWordCount
     THEN <<"consider retrieving">>
     ELSE <<>>)
    \o (IF Len(state.archivedContext) > 20
        THEN <<"consider summarizing">> ELSE <<>>)

Call(op, c, err, ret) == [op |-> op, conv |-> c, err |-> err, ret |-> ret]

NoDecisions ==
    [conv |-> Undefined,
     archiveDecision |-> shouldArchive([totalWordCount |-> 0, maxWordCount |-> 1,
                                        currentContext |-> <<>>], 0),
     retrievalDecision |-> [shouldRetrieve |-> FALSE,
                            contextToRetrieve |-> <<>>,
                            reason |-> "Above retrieve threshold"]]

Init ==
    /\ conversations = <<>>
    /\ maxWordCount \in Capacities
    /\ store = <<>>
    /\ nextId = 1
    /\ now = 0
    /\ adds = 0
    /\ pc = "idle"
    /\ held = NoDecisions
    /\ other = [pc |-> "idle", held |-> NoDecisions]
    /\ last = Call("new", Undefined, "none", <<>>)

Initialize(c, llm, userId) ==
    /\ pc = "idle"
    /\ conversations' = initializeConversation(conversations, c, llm, userId)
    /\ last' = Call("initializeConversation", c, "none", <<llm, userId>>)
    /\ UNCHANGED <<maxWordCount, other, store, nextId, now, adds, pc, held>>

\* The hour is read only when the archive policy fires (generateTags).
HoursRead(state) == IF RatioLT(state, ARCHIVE_THRESHOLD) THEN {0} ELSE Hours

AddMessage(c, message, llm, userId) ==
    /\ pc = "idle"
    /\ adds < MaxAdds
    /\ adds' = adds + 1
    /\ \E hour \in HoursRead(PushMessage(
                       initializeConversation(conversations, c, llm, userId)[c],
                       message)) :
       LET convs == initializeConversation(conversations, c, llm, userId)
           state == PushMessage(convs[c], message)
           archiveDecision == shouldArchive(state, hour)
           docs == shouldRetrieveStore(state, store)
       IN  /\ nextId - 1 + Len(archiveDecision.messagesToArchive) <= MaxStore
           /\ conversations' = [convs EXCEPT ![c] = state]
           /\ store' = docs
           /\ \E retrievalDecision \in shouldRetrieve(state, docs) :
                 held' = [conv |-> c,
                          archiveDecision |-> archiveDecision,
                          retrievalDecision |-> retrievalDecision]
    /\ pc' = "decided"
    /\ last' = Call("addMessage", c, "none", <<>>)
    /\ UNCHANGED <<maxWordCount, other, nextId, now>>

\* a changed AddMessageFails: the message is taken out again before the
\* rejection reaches the caller
AddMessageFailsRolledBack(c, message, llm, userId) ==
    /\ pc = "idle"
    /\ adds < MaxAdds
    /\ adds' = adds + 1
    /\ LET convs == initializeConversation(conversations, c, llm, userId)
           state == PushMessage(convs[c], message)
           items == {i \in 1..Len(store) :
                       /\ store[i].conversationId = c
                       /\ store[i].contextType = "archived"}
       IN  /\ ~RatioGT(state, RETRIEVE_THRESHOLD)
           /\ conversations' = convs
           /\ \E n \in 0..Cardinality(items) :
                 store' = scoreRelevanceUpTo(
                              store, c, Join(state.currentContext, <<" ">>), n)
    /\ last' = Call("addMessage", c, "StoreFailure", <<>>)
    /\ UNCHANGED <<maxWordCount, other, nextId, now, pc, held>>

\* addMessage when a store call of shouldRetrieve is rejected: the find or
\* one of the updateOne calls of scoreRelevance, or the find of
\* retrieveContext.  The rejection leaves addMessage at its line 96, after the
\* message was pushed and counted at lines 88-90.
AddMessageFails(c, message, llm, userId) ==
    /\ pc = "idle"
    /\ adds < MaxAdds
    /\ adds' = adds + 1
    /\ LET convs == initializeConversation(conversations, c, llm, userId)
           state == PushMessage(convs[c], message)
           items == {i \in 1..Len(store) :
                       /\ store[i].conversationId = c
                       /\ store[i].contextType = "archived"}
       IN  /\ ~RatioGT(state, RETRIEVE_THRESHOLD)
           /\ conversations' = [convs EXCEPT ![c] = state]
           /\ \E n \in 0..Cardinality(items) :
                 store' = scoreRelevanceUpTo(
                              store, c, Join(state.currentContext, <<" ">>), n)
    /\ last' = Call("addMessage", c, "StoreFailure", <<>>)
    /\ UNCHANGED <<maxWordCount, other, nextId, now, pc, held>>

\* What collection.insertMany does with the documents of archiveContext: an
\* empty array is rejected by drivers that refuse an empty bulk operation and
\* accepted by the others; the source pins no driver version.
InsertManyOutcomes(documents) ==
    IF Len(documents) = 0 THEN {"returns", "throws"} ELSE {"returns"}

ExecuteArchive ==
    /\ pc = "decided"
    /\ LET decision == held.archiveDecision
           state == conversations[held.conv]
       IN  IF ~decision.shouldArchive
           THEN /\ pc' = "archived"
                /\ last' = Call("executeArchive", held.conv, "none", <<>>)
                /\ UNCHANGED <<conversations, store, nextId, held>>
           ELSE \E outcome \in InsertManyOutcomes(decision.messagesToArchive) :
                  IF outcome = "throws"
                  THEN \* the rejection leaves executeArchive at line 186 and
                       \* handleAdd before its call of executeRetrieval
                       /\ pc' = "idle"
                       /\ held' = NoDecisions
                       /\ last' = Call("executeArchive", held.conv,
                                       "StoreFailure", <<>>)
                       /\ UNCHANGED <<conversations, store, nextId>>
                  ELSE /\ store' = store \o
                              archiveContext(state.conversationId,
                                             decision.messagesToArchive,
                                             decision.tags, state.llm,
                                             state.userId, now, nextId)
                       /\ nextId' = nextId + Len(decision.messagesToArchive)
                       /\ conversations' =
                              [conversations EXCEPT ![held.conv] =
                                  RemoveArchived(state,
                                                 decision.messagesToArchive)]
                       /\ pc' = "archived"
                       /\ last' = Call("executeArchive", held.conv, "none",
                                       <<Len(decision.messagesToArchive),
                                         Take(state.currentContext,
                                              Len(decision.messagesToArchive))>>)
                       /\ UNCHANGED held
    /\ UNCHANGED <<maxWordCount, other, now, adds>>

\* executeArchive when the insertMany of archiveContext is rejected by the
\* store after it inserted the first n documents of the batch (an ordered
\* insert stops at the first failure): the rejection leaves executeArchive at
\* its line 186 and handleAdd before its call of executeRetrieval.
ExecuteArchiveFails ==
    /\ pc = "decided"
    /\ held.archiveDecision.shouldArchive
    /\ LET decision == held.archiveDecision
           state == conversations[held.conv]
       IN  \E n \in 0..(Len(decision.messagesToArchive) - 1) :
              /\ store' = store \o
                     archiveContext(state.conversationId,
                                    Take(decision.messagesToArchive, n),
                                    decision.tags, state.llm, state.userId,
                                    now, nextId)
              /\ nextId' = nextId + n
    /\ pc' = "idle"
    /\ held' = NoDecisions
    /\ last' = Call("executeArchive", held.conv, "StoreFailure", <<>>)
    /\ UNCHANGED <<conversations, maxWordCount, other, now, adds>>

\* The caller passes the archive decision it holds to executeArchive once
\* more, after the call that executed it: nothing in executeArchive tells a
\* decision that was executed from one that was not.
ExecuteArchiveAgain ==
    /\ pc = "archived"
    /\ held.archiveDecision.shouldArchive
    /\ LET decision == held.archiveDecision
           state == conversations[held.conv]
       IN  /\ nextId - 1 + Len(decision.messagesToArchive) <= MaxStore
           /\ \E outcome \in InsertManyOutcomes(decision.messagesToArchive) :
                 IF outcome = "throws"
                 THEN /\ last' = Call("executeArchive", held.conv,
                                      "StoreFailure", <<>>)
                      /\ UNCHANGED <<conversations, store, nextId>>
                 ELSE /\ store' = store \o
                             archiveContext(state.conversationId,
                                            decision.messagesToArchive,
                                            decision.tags, state.llm,
                                            state.userId, now, nextId)
                      /\ nextId' = nextId + Len(decision.messagesToArchive)
                      /\ conversations' =
                             [conversations EXCEPT ![held.conv] =
                                 RemoveArchived(state,
                                                decision.messagesToArchive)]
                      /\ last' = Call("executeArchive", held.conv, "none",
                                      <<Len(decision.messagesToArchive),
                                        Take(state.currentContext,
                                             Len(decision.messagesToArchive))>>)
    /\ UNCHANGED <<maxWordCount, other, now, adds, pc, held>>

ExecuteRetrieval ==
    /\ pc = "archived"
    /\ LET decision == held.retrievalDecision
           state == conversations[held.conv]
       IN  IF ~decision.shouldRetrieve
           THEN UNCHANGED conversations
           ELSE conversations' =
                    [conversations EXCEPT ![held.conv] =
                        Unshift(state, decision.contextToRetrieve)]
    /\ pc' = "idle"
    /\ held' = NoDecisions
    /\ last' = Call("executeRetrieval", held.conv, "none",
                    IF held.retrievalDecision.shouldRetrieve
                    THEN <<Len(held.retrievalDecision.contextToRetrieve)>>
                    ELSE <<>>)
    /\ UNCHANGED <<maxWordCount, other, store, nextId, now, adds>>

\* a changed CreateSummary: the identifier is handed back to the caller
CreateSummaryReturnsId(c, summaryText, llm, userId) ==
    /\ pc = "idle"
    /\ IF ~Has(c)
       THEN /\ last' = Call("createSummary", c, "NotFound", <<>>)
            /\ UNCHANGED <<store, nextId>>
       ELSE \E archivedItems \in retrieveContext(store, c, <<1, 10>>, 10) :
               IF Len(archivedItems) = 0
               THEN /\ last' = Call("createSummary", c, "NothingToSummarize", <<>>)
                    /\ UNCHANGED <<store, nextId>>
               ELSE /\ nextId <= MaxStore
                    /\ store' = createSummary(store, c, archivedItems,
                                              summaryText, llm, userId, now,
                                              nextId)
                    /\ nextId' = nextId + 1
                    /\ last' = Call("createSummary", c, "none", <<nextId>>)
    /\ UNCHANGED <<conversations, maxWordCount, other, now, adds, pc, held>>

\* a changed CreateSummary: an empty result is summarized like any other
CreateSummaryUnchecked(c, summaryText, llm, userId) ==
    /\ pc = "idle"
    /\ IF ~Has(c)
       THEN /\ last' = Call("createSummary", c, "NotFound", <<>>)
            /\ UNCHANGED <<store, nextId>>
       ELSE \E archivedItems \in retrieveContext(store, c, <<1, 10>>, 10) :
               /\ nextId <= MaxStore
               /\ store' = createSummary(store, c, archivedItems, summaryText,
                                         llm, userId, now, nextId)
               /\ nextId' = nextId + 1
               /\ last' = Call("createSummary", c, "none", <<>>)
    /\ UNCHANGED <<conversations, maxWordCount, other, now, adds, pc, held>>

CreateSummary(c, summaryText, llm, userId) ==
    /\ pc = "idle"
    /\ IF ~Has(c)
       THEN /\ last' = Call("createSummary", c, "NotFound", <<>>)
            /\ UNCHANGED <<store, nextId>>
       ELSE \E archivedItems \in retrieveContext(store, c, <<1, 10>>, 10) :
               IF Len(archivedItems) = 0
               THEN /\ last' = Call("createSummary", c, "NothingToSummarize", <<>>)
                    /\ UNCHANGED <<store, nextId>>
               ELSE /\ nextId <= MaxStore
                    /\ store' = createSummary(store, c, archivedItems,
                                              summaryText, llm, userId, now,
                                              nextId)
                    /\ nextId' = nextId + 1
                    /\ last' = Call("createSummary", c, "none", <<>>)
    /\ UNCHANGED <<conversations, maxWordCount, other, now, adds, pc, held>>

\* a changed GetConversationStatus: an unknown id gets a state, as in addMessage
GetConversationStatusInitializes(c) ==
    /\ pc = "idle"
    /\ conversations' = initializeConversation(conversations, c, "claude",
                                                Undefined)
    /\ last' = Call("getConversationStatus", c, "none",
                    Recommendations(conversations'[c]))
    /\ UNCHANGED <<maxWordCount, other, store, nextId, now, adds, pc, held>>

GetConversationStatus(c) ==
    /\ pc = "idle"
    /\ last' = IF ~Has(c)
               THEN Call("getConversationStatus", c, "NotFound", <<>>)
               ELSE Call("getConversationStatus", c, "none",
                         Recommendations(conversations[c]))
    /\ UNCHANGED <<conversations, maxWordCount, other, store, nextId, now, adds, pc, held>>

RemoveConversation(c) ==
    /\ pc = "idle"
    /\ conversations' = [k \in DOMAIN conversations \ {c} |-> conversations[k]]
    /\ last' = Call("removeConversation", c, "none", <<>>)
    /\ UNCHANGED <<maxWordCount, other, store, nextId, now, adds, pc, held>>

\* The archive-context tool of the protocol server, which shares the collection.
ArchiveContextTool(c, contextMessages, tags, llm, userId) ==
    /\ pc = "idle"
    /\ nextId - 1 + Len(contextMessages) <= MaxStore
    /\ store' = store \o archiveContext(c, contextMessages, tags, llm, userId,
                                        now, nextId)
    /\ nextId' = nextId + Len(contextMessages)
    /\ last' = Call("archive-context", c, "none", <<Len(contextMessages)>>)
    /\ UNCHANGED <<conversations, maxWordCount, other, now, adds, pc, held>>

\* The save-memories tool: the collection is emptied, then one document saved.
SaveMemoriesTool(memories, llm, userId) ==
    /\ pc = "idle"
    /\ nextId <= MaxStore
    /\ store' = saveMemories(clearAllMemories(store), memories, llm, userId,
                             now, nextId)
    /\ nextId' = nextId + 1
    /\ last' = Call("save-memories", Undefined, "none", <<Len(memories)>>)
    /\ UNCHANGED <<conversations, maxWordCount, other, now, adds, pc, held>>

\* The clear-memories tool.
ClearMemoriesTool ==
    /\ pc = "idle"
    /\ store' = clearAllMemories(store)
    /\ last' = Call("clear-memories", Undefined, "none",
                    <<deletedCount(store)>>)
    /\ UNCHANGED <<conversations, maxWordCount, other, nextId, now, adds, pc, held>>

\* Item lists a caller of the create-summary tool may pass for conversation
\* c, as other tools returned them: the conversation's archived items, or its
\* summaries (createSummary reads only the _id of each item, so the order of
\* the list has no effect).
ToolItems(docs, c) ==
    LET IsArchived(d) == d.conversationId = c /\ d.contextType = "archived"
        IsSummary(d) == d.conversationId = c /\ d.contextType = "summary"
    IN  {SelectSeq(docs, IsArchived), SelectSeq(docs, IsSummary)}

\* The create-summary tool: the adapter's createSummary on the items passed.
CreateSummaryTool(c, contextItems, summaryText, llm, userId) ==
    /\ pc = "idle"
    /\ nextId <= MaxStore
    /\ store' = createSummary(store, c, contextItems, summaryText, llm, userId,
                              now, nextId)
    /\ nextId' = nextId + 1
    /\ last' = Call("create-summary", c, "none", <<nextId>>)
    /\ UNCHANGED <<conversations, maxWordCount, other, now, adds, pc, held>>

GetActiveConversations ==
    /\ pc = "idle"
    /\ last' = Call("getActiveConversations", Undefined, "none",
                    <<DOMAIN conversations>>)
    /\ UNCHANGED <<conversations, maxWordCount, other, store, nextId, now, adds, pc, held>>

\* The caller holding decisions stops at an await and the second caller runs:
\* nothing serializes addMessage with the executions that follow it.
Yield ==
    /\ <<pc, held>> # <<other.pc, other.held>>
    /\ pc' = other.pc
    /\ held' = other.held
    /\ other' = [pc |-> pc, held |-> held]
    /\ last' = Call("await", Undefined, "none", <<>>)
    /\ UNCHANGED <<conversations, maxWordCount, store, nextId, now, adds>>

\* Two conversations driven by the command-line harness, next to the
\* archive-context tool.
Next ==
    \/ \E c \in ConvIds, caller \in CliCallers :
          Initialize(c, caller[1], caller[2])
    \/ \E c \in ConvIds, message \in Messages, caller \in CliCallers :
          AddMessage(c, message, caller[1], caller[2])
    \/ ExecuteArchive
    \/ ExecuteRetrieval
    \/ \E c \in ConvIds : RemoveConversation(c)
    \/ \E c \in ConvIds, batch \in ToolBatches, tags \in ToolTags,
          caller \in ToolCallers :
          ArchiveContextTool(c, batch, tags, caller[1], caller[2])

Spec == Init /\ [][Next]_vars

\* One conversation driven by the command-line harness, which also asks for
\* summaries of it and of a conversation it never initialized.
NextSummary ==
    \/ \E caller \in CliCallers : Initialize("c1", caller[1], caller[2])
    \/ \E message \in Messages, caller \in CliCallers :
          AddMessage("c1", message, caller[1], caller[2])
    \/ ExecuteArchive
    \/ ExecuteRetrieval
    \/ \E c \in ConvIds, summaryText \in SummaryTexts, caller \in CliCallers :
          CreateSummary(c, summaryText, caller[1], caller[2])
    \/ RemoveConversation("c1")
    \/ \E c \in ConvIds, batch \in ToolBatches, tags \in ToolTags,
          caller \in ToolCallers :
          ArchiveContextTool(c, batch, tags, caller[1], caller[2])

SpecSummary == Init /\ [][NextSummary]_vars

\* One conversation, initialized and written to with either pair of
\* provenance tags.
NextCallers ==
    \/ \E caller \in Callers : Initialize("c1", caller[1], caller[2])
    \/ \E message \in Messages, caller \in Callers :
          AddMessage("c1", message, caller[1], caller[2])
    \/ ExecuteArchive
    \/ ExecuteRetrieval
    \/ RemoveConversation("c1")
    \/ \E batch \in ToolBatches, tags \in ToolTags, caller \in ToolCallers :
          ArchiveContextTool("c1", batch, tags, caller[1], caller[2])

SpecCallers == Init /\ [][NextCallers]_vars

\* An orchestrator started on a collection that holds the archived items of
\* an earlier run: more of them than createSummary fetches.
InitBulk ==
    /\ conversations = <<>>
    /\ maxWordCount \in Capacities
    /\ now = 0
    /\ store = archiveContext("c1", BulkBatch, <<"t">>, "gpt", "u1", now - 1,
                              1 - Len(BulkBatch))
    /\ nextId = 1
    /\ adds = 0
    /\ pc = "idle"
    /\ held = NoDecisions
    /\ other = [pc |-> "idle", held |-> NoDecisions]
    /\ last = Call("new", Undefined, "none", <<>>)

NextBulk ==
    \/ \E message \in BulkMessages, caller \in CliCallers :
          AddMessage("c1", message, caller[1], caller[2])
    \/ ExecuteArchive
    \/ ExecuteRetrieval
    \/ \E summaryText \in SummaryTexts, caller \in CliCallers :
          CreateSummary("c1", summaryText, caller[1], caller[2])

SpecBulk == InitBulk /\ [][NextBulk]_vars

\* One conversation driven by the command-line harness while the protocol
\* server's tools work on the same collection.
NextTools ==
    \/ \E message \in ToolsMessages, caller \in CliCallers :
          AddMessage("c1", message, caller[1], caller[2])
    \/ ExecuteArchive
    \/ ExecuteRetrieval
    \/ \E summaryText \in SummaryTexts, caller \in CliCallers :
          CreateSummary("c1", summaryText, caller[1], caller[2])
    \/ \E batch \in ToolBatches, tags \in ToolTags, caller \in ToolCallers :
          ArchiveContextTool("c1", batch, tags, caller[1], caller[2])
    \/ \E contextItems \in ToolItems(store, "c1"),
          summaryText \in SummaryTexts, caller \in ToolCallers :
          CreateSummaryTool("c1", contextItems, summaryText, caller[1],
                            caller[2])
    \/ \E memories \in ToolMemories, caller \in ToolCallers :
          SaveMemoriesTool(memories, caller[1], caller[2])
    \/ ClearMemoriesTool

SpecTools == Init /\ [][NextTools]_vars

\* Two callers of one orchestrator, each following addMessage by the two
\* executions, taking turns at any point in between; a conversation is removed
\* only while the waiting caller holds no decision on it.
NextInterleaved ==
    \/ \E c \in ConvIds, message \in InterleavedMessages, caller \in CliCallers :
          AddMessage(c, message, caller[1], caller[2])
    \/ ExecuteArchive
    \/ ExecuteRetrieval
    \/ Yield
    \/ \E c \in ConvIds, summaryText \in SummaryTexts, caller \in CliCallers :
          CreateSummary(c, summaryText, caller[1], caller[2])
    \/ \E c \in ConvIds : other.held.conv # c /\ RemoveConversation(c)
    \/ \E c \in ConvIds, batch \in ToolBatches, tags \in ToolTags,
          caller \in ToolCallers :
          ArchiveContextTool(c, batch, tags, caller[1], caller[2])
    \/ \E c \in ConvIds, caller \in CliCallers :
          Initialize(c, caller[1], caller[2])
    \/ \E c \in ConvIds : GetConversationStatus(c)

SpecInterleaved == Init /\ [][NextInterleaved]_vars

\* An orchestrator built with either of two capacities, asked for the status
\* of its conversations and for the list of them between the other calls.
StatusCapacities == {MaxCapacity, 2 * MaxCapacity}

InitStatus ==
    /\ conversations = <<>>
    /\ maxWordCount \in StatusCapacities
    /\ store = <<>>
    /\ nextId = 1
    /\ now = 0
    /\ adds = 0
    /\ pc = "idle"
    /\ held = NoDecisions
    /\ other = [pc |-> "idle", held |-> NoDecisions]
    /\ last = Call("new", Undefined, "none", <<>>)

NextStatus ==
    \/ \E c \in ConvIds, caller \in CliCallers :
          Initialize(c, caller[1], caller[2])
    \/ \E message \in Messages, caller \in CliCallers :
          AddMessage("c1", message, caller[1], caller[2])
    \/ ExecuteArchive
    \/ ExecuteRetrieval
    \/ \E c \in ConvIds : RemoveConversation(c)
    \/ \E c \in ConvIds : GetConversationStatus(c)
    \/ GetActiveConversations
    \/ \E batch \in ToolBatches, tags \in ToolTags, caller \in ToolCallers :
          ArchiveContextTool("c1", batch, tags, caller[1], caller[2])

SpecStatus == InitStatus /\ [][NextStatus]_vars

\* One round of the add command on conversation "c1": addMessage, then
\* executeArchive, then executeRetrieval, with the hour read being 11 and
\* the insert of the batch returning.
HandleAdd(s, message) ==
    LET convs == initializeConversation(s.conversations, "c1", "claude",
                                        Undefined)
        state == PushMessage(convs["c1"], message)
        archiveDecision == shouldArchive(state, 11)
        docs == shouldRetrieveStore(state, s.store)
        retrievalDecision == CHOOSE d \in shouldRetrieve(state, docs) : TRUE
        batch == archiveDecision.messagesToArchive
        archived == IF archiveDecision.shouldArchive
                    THEN RemoveArchived(state, batch) ELSE state
        retrieved == IF retrievalDecision.shouldRetrieve
                     THEN Unshift(archived, retrievalDecision.contextToRetrieve)
                     ELSE archived
    IN  [conversations |-> [convs EXCEPT !["c1"] = retrieved],
         store |-> IF archiveDecision.shouldArchive
                   THEN docs \o archiveContext("c1", batch,
                                               archiveDecision.tags, "claude",
                                               Undefined, now, s.nextId)
                   ELSE docs,
         nextId |-> s.nextId + Len(batch)]

\* The orchestrators and stores n rounds of the add command with the
\* message "a" after those of S.
RECURSIVE Rounds(_, _)
Rounds(n, S) ==
    IF n = 0 THEN S ELSE {HandleAdd(s, <<"a">>) : s \in Rounds(n - 1, S)}

\* The orchestrator and the store after n rounds from construction, the
\* first document stored getting the id id0.
AfterAdds(n, id0) ==
    CHOOSE s \in Rounds(n, {[conversations |-> <<>>, store |-> <<>>,
                             nextId |-> id0]}) : TRUE

\* A long session: LongRunAdds rounds of the add command have been made; the
\* ids of the documents they stored end at 0.
InitLong ==
    /\ maxWordCount \in Capacities
    /\ now = 0
    /\ LET archived == Len(AfterAdds(LongRunAdds, 0).store)
           s == AfterAdds(LongRunAdds, 1 - archived)
       IN  /\ conversations = s.conversations
           /\ store = s.store
           /\ nextId = s.nextId
    /\ adds = 0
    /\ pc = "idle"
    /\ held = NoDecisions
    /\ other = [pc |-> "idle", held |-> NoDecisions]
    /\ last = Call("new", Undefined, "none", <<>>)

NextLong ==
    \/ \E message \in BulkMessages, caller \in CliCallers :
          AddMessage("c1", message, caller[1], caller[2])
    \/ ExecuteArchive
    \/ ExecuteRetrieval
    \/ GetConversationStatus("c1")

SpecLong == InitLong /\ [][NextLong]_vars

\* An orchestrator of either capacity started on a collection that holds the
\* items of three earlier calls of the archive-context tool, made at two
\* different times.
InitRetrieve ==
    /\ conversations = <<>>
    /\ maxWordCount \in StatusCapacities
    /\ now = 0
    /\ store =
          archiveContext("c1", OlderBatch, <<"t">>, "gpt", "u1", now - 2,
                         1 - Len(OtherBatch) - Len(NewerBatch)
                           - Len(OlderBatch))
          \o archiveContext("c1", NewerBatch, <<"t">>, "gpt", "u1", now - 1,
                            1 - Len(OtherBatch) - Len(NewerBatch))
          \o archiveContext("c2", OtherBatch, <<"t">>, "gpt", "u1", now - 1,
                            1 - Len(OtherBatch))
    /\ nextId = 1
    /\ adds = 0
    /\ pc = "idle"
    /\ held = NoDecisions
    /\ other = [pc |-> "idle", held |-> NoDecisions]
    /\ last = Call("new", Undefined, "none", <<>>)

NextRetrieve ==
    \/ \E c \in ConvIds, message \in Messages, caller \in CliCallers :
          AddMessage(c, message, caller[1], caller[2])
    \/ ExecuteArchive
    \/ ExecuteRetrieval

SpecRetrieve == InitRetrieve /\ [][NextRetrieve]_vars

\* One conversation whose messages may end in whitespace, next to the
\* archive-context tool storing an item with empty text.
NextScore ==
    \/ \E message \in ScoreMessages, caller \in CliCallers :
          AddMessage("c1", message, caller[1], caller[2])
    \/ ExecuteArchive
    \/ ExecuteRetrieval
    \/ \E batch \in ScoreBatches, tags \in ToolTags, caller \in ToolCallers :
          ArchiveContextTool("c1", batch, tags, caller[1], caller[2])

SpecScore == InitStatus /\ [][NextScore]_vars

\* One conversation whose caller may execute an archive decision more than
\* once before it goes on.
NextReplay ==
    \/ \E message \in Messages, caller \in CliCallers :
          AddMessage("c1", message, caller[1], caller[2])
    \/ ExecuteArchive
    \/ ExecuteArchiveAgain
    \/ ExecuteRetrieval

SpecReplay == Init /\ [][NextReplay]_vars

\* One conversation on a store whose calls may be rejected, next to the
\* archive-context tool.
NextFailures ==
    \/ \E message \in Messages, caller \in CliCallers :
          AddMessage("c1", message, caller[1], caller[2])
    \/ \E message \in Messages, caller \in CliCallers :
          AddMessageFails("c1", message, caller[1], caller[2])
    \/ ExecuteArchive
    \/ ExecuteArchiveFails
    \/ ExecuteRetrieval
    \/ \E batch \in ToolBatches, tags \in ToolTags, caller \in ToolCallers :
          ArchiveContextTool("c1", batch, tags, caller[1], caller[2])

SpecFailures == InitStatus /\ [][NextFailures]_vars

\* ------------------------------------------------------------------ claims

\* Steps of the protocol, told by where the caller stands before and after.
AddMessageStep == pc = "idle" /\ pc' = "decided"
ExecuteArchiveStep == pc = "decided" /\ pc' = "archived"
ExecuteRetrievalStep == pc = "archived" /\ pc' = "idle"

\* Word count as the claims state it: the pieces between runs of whitespace.
Pieces(text) == Len(Split(text))
WindowWords(window) == SumSeq([i \in 1..Len(window) |-> Pieces(window[i])])

Reverse(s) == [i \in 1..Len(s) |-> s[Len(s) + 1 - i]]
Contents(items) == [i \in 1..Len(items) |-> Join(items[i].memories, <<" ">>)]

\* C1: with every returned decision executed before the next addMessage,
\* totalWordCount of every conversation equals the sum of the word counts of
\* the entries of its window (here in every state of the protocol, also
\* between addMessage and the two executions).
C1_TotalWordCountIsSum ==
    \A c \in DOMAIN conversations :
        conversations[c].totalWordCount =
            WindowWords(conversations[c].currentContext)

\* C1 witness: both executions are over, an archive has evicted a retrieved
\* entry, and the window left holds entries of more than one word.
C1_Witness ==
    /\ pc = "idle"
    /\ last.op = "executeRetrieval"
    /\ adds >= 2
    /\ \E i \in 1..Len(store) : store[i].llm = "claude"
    /\ \E c \in DOMAIN conversations :
          /\ Len(conversations[c].currentContext) >= 4
          /\ conversations[c].totalWordCount >
                 Len(conversations[c].currentContext)

\* C2: the archive decision addMessage returns has shouldArchive = TRUE
\* exactly when totalWordCount / maxWordCount >= 0.8 with the new message
\* counted.
C2_ArchiveIffAtThreshold ==
    pc = "decided" =>
        (held.archiveDecision.shouldArchive <=>
            conversations[held.conv].totalWordCount * 5 >=
                4 * conversations[held.conv].maxWordCount)

\* C2 witness: a decision taken with the ratio exactly 0.8.
C2_Witness ==
    /\ pc = "decided"
    /\ held.archiveDecision.shouldArchive
    /\ conversations[held.conv].totalWordCount * 5 =
           4 * conversations[held.conv].maxWordCount

\* Relevance of a document against the window text, as the scorer defines it.
RelevantTo(doc, window) ==
    LET score == Jaccard(Join(window, <<" ">>), Join(doc.memories, <<" ">>))
    IN  score[1] * 10 >= 2 * score[2]

C4_ArchiveRemovesPrefix ==
    [][(ExecuteArchiveStep /\ held.archiveDecision.shouldArchive) =>
        LET batch == held.archiveDecision.messagesToArchive
            k == Len(batch)
            window == conversations[held.conv].currentContext
        IN  /\ k <= Len(window)
            /\ SubSeq(window, 1, k) = batch
            /\ conversations'[held.conv].currentContext =
                   SubSeq(window, k + 1, Len(window))
            /\ Len(store') = Len(store) + k
            /\ \A i \in 1..Len(store) : store'[i] = store[i]
            /\ \A i \in 1..k :
                  /\ store'[Len(store) + i].memories = <<window[i]>>
                  /\ store'[Len(store) + i].conversationId = held.conv
                  /\ store'[Len(store) + i].contextType = "archived"]_vars

\* C4 witness: a batch of two distinct messages has been archived and
\* messages are left in the window.
C4_Witness ==
    /\ pc = "archived"
    /\ last.ret # <<>>
    /\ last.ret[1] = 2
    /\ held.archiveDecision.messagesToArchive[1] #
           held.archiveDecision.messagesToArchive[2]
    /\ Len(conversations[held.conv].currentContext) >= 2

\* C5: executeRetrieval leaves the window equal to the retrieved contents in
\* the reverse of the order listed, followed by the previous window.
C5_RetrievalPrependsReversed ==
    [][(ExecuteRetrievalStep /\ held.retrievalDecision.shouldRetrieve) =>
        conversations'[held.conv].currentContext =
            Reverse(Contents(held.retrievalDecision.contextToRetrieve))
                \o conversations[held.conv].currentContext]_vars

\* C5 witness: three or more items of pairwise different relevance were
\* retrieved: the window starts with the last listed and the first listed
\* comes right before the previous window.
C5_Witness ==
    /\ pc = "idle"
    /\ last.op = "executeRetrieval"
    /\ last.ret # <<>>
    /\ last.ret[1] >= 3
    /\ LET window == conversations[last.conv].currentContext
       IN  /\ window[1] # window[2]
           /\ window[2] # window[3]
           /\ window[1] # window[3]

\* The first listed item has a strictly higher relevance than every other
\* item of the decision.
StrictlyHighestFirst(items) ==
    \A j \in 2..Len(items) :
        LET first == items[1].relevanceScore[1]
            lower == items[j].relevanceScore[1]
        IN  first[1] * lower[2] > lower[1] * first[2]

\* C6 as stated: after executeRetrieval of two or more items, the
\* highest-relevance item is found at a lower index of the window than every
\* other item of the decision.
C6_HighestClosestToFront ==
    [][(/\ ExecuteRetrievalStep
        /\ held.retrievalDecision.shouldRetrieve
        /\ Len(held.retrievalDecision.contextToRetrieve) >= 2
        /\ StrictlyHighestFirst(held.retrievalDecision.contextToRetrieve)) =>
        LET content == Contents(held.retrievalDecision.contextToRetrieve)
            window == conversations'[held.conv].currentContext
        IN  \A j \in 2..Len(content) :
                \E p, q \in 1..Len(window) :
                    /\ p < q
                    /\ window[p] = content[1]
                    /\ window[q] = content[j]]_vars

\* C6 amended: after executeRetrieval of k >= 2 items, the highest-relevance
\* (first listed) item is at index k - 1, right before the previous window and
\* behind every other item of the decision; the last listed item is at
\* index 0.
C6_HighestFarthestFromFront ==
    [][(/\ ExecuteRetrievalStep
        /\ held.retrievalDecision.shouldRetrieve
        /\ Len(held.retrievalDecision.contextToRetrieve) >= 2) =>
        LET content == Contents(held.retrievalDecision.contextToRetrieve)
            k == Len(content)
            window == conversations'[held.conv].currentContext
        IN  /\ window[k] = content[1]
            /\ window[1] = content[k]
            /\ \A j \in 2..k : window[k + 1 - j] = content[j]
            /\ SubSeq(window, k + 1, Len(window)) =
                   conversations[held.conv].currentContext]_vars

\* C6 witness: two or more items were retrieved, the strictly most relevant
\* of them with a content no other of them has, and it is now the last of
\* them in the window.
C6_Witness ==
    /\ pc = "idle"
    /\ last.op = "executeRetrieval"
    /\ last.ret # <<>>
    /\ last.ret[1] >= 2
    /\ LET window == conversations[last.conv].currentContext
           k == last.ret[1]
       IN  /\ \A p \in 1..(k - 1) : window[p] # window[k]
           /\ \E i \in 1..Len(store) :
                 /\ store[i].conversationId = last.conv
                 /\ Join(store[i].memories, <<" ">>) = window[k]
                 /\ store[i].relevanceScore = Some(<<1, 1>>)

\* C7 as stated: an addMessage call changes no stored record, and changes
\* the in-memory state only by appending the message to the window and
\* adding its word count to totalWordCount.
C7_AddMessageWritesNothing ==
    [][AddMessageStep =>
        /\ store' = store
        /\ nextId' = nextId
        /\ \A c \in DOMAIN conversations :
              /\ c \in DOMAIN conversations'
              /\ c # last'.conv => conversations'[c] = conversations[c]
        /\ Has(last'.conv) =>
              LET before == conversations[last'.conv]
                  after == conversations'[last'.conv]
              IN  /\ Len(after.currentContext) = Len(before.currentContext) + 1
                  /\ SubSeq(after.currentContext, 1, Len(before.currentContext))
                         = before.currentContext
                  /\ after.totalWordCount = before.totalWordCount +
                         Pieces(after.currentContext[Len(after.currentContext)])
                  /\ after.maxWordCount = before.maxWordCount
                  /\ after.llm = before.llm
                  /\ after.userId = before.userId]_vars

\* Any return or rejection of executeArchive on the decision just returned.
ExecuteArchiveCall == pc = "decided" /\ last'.op = "executeArchive"

\* C8 as stated: once a decision with shouldArchive = TRUE has been
\* executed, the usage ratio is below 0.8.
C8_RatioBelowThresholdAfterArchive ==
    [][(ExecuteArchiveStep /\ held.archiveDecision.shouldArchive) =>
        conversations'[held.conv].totalWordCount * 5 <
            4 * conversations'[held.conv].maxWordCount]_vars

\* C8 amended: once a decision with shouldArchive = TRUE has been executed,
\* totalWordCount is what it was minus the word counts of the batch: the
\* usage ratio is lower than before when the batch is not empty and the same
\* when it is empty (a window of fewer than 4 messages); it need not be below
\* 0.8.
C8_RatioDropsByBatch ==
    [][(ExecuteArchiveCall /\ held.archiveDecision.shouldArchive) =>
        LET batch == held.archiveDecision.messagesToArchive
            before == conversations[held.conv]
            after == conversations'[held.conv]
        IN  /\ after.maxWordCount = before.maxWordCount
            /\ after.totalWordCount =
                   before.totalWordCount - WindowWords(batch)
            /\ Len(batch) >= 1 => after.totalWordCount < before.totalWordCount
            /\ Len(batch) = 0 => after.totalWordCount = before.totalWordCount
            /\ Len(before.currentContext) < 4 => Len(batch) = 0]_vars

\* C8 witness: a batch that was not empty has been archived and the usage
\* ratio is still at or above 0.8.
C8_Witness ==
    /\ pc = "archived"
    /\ last.ret # <<>>
    /\ last.ret[1] >= 1
    /\ conversations[held.conv].totalWordCount * 5 >=
           4 * conversations[held.conv].maxWordCount

\* Archived items of conversation c whose stored relevance is present and
\* at least 0.1.
Summarizable(c) ==
    {i \in 1..Len(store) :
        /\ store[i].conversationId = c
        /\ store[i].contextType = "archived"
        /\ store[i].relevanceScore # None
        /\ store[i].relevanceScore[1][1] * 10 >= store[i].relevanceScore[1][2]}

\* C9: createSummary fails with NotFound when the conversation has no
\* in-memory state and with NothingToSummarize when it has no archived item
\* of relevance >= 0.1; a failed call creates no record and changes no
\* record and no in-memory state.
C9_CreateSummaryFailures ==
    [][last'.op = "createSummary" =>
        /\ ~Has(last'.conv) => last'.err = "NotFound"
        /\ (Has(last'.conv) /\ Summarizable(last'.conv) = {}) =>
               last'.err = "NothingToSummarize"
        /\ last'.err \in {"NotFound", "NothingToSummarize"} =>
               /\ store' = store
               /\ nextId' = nextId
               /\ conversations' = conversations]_vars

\* C9 witness: a summary was refused for a known conversation whose archived
\* items were never scored, and the collection holds no summary.
C9_Witness ==
    /\ last.op = "createSummary"
    /\ last.err = "NothingToSummarize"
    /\ Has(last.conv)
    /\ \E i \in 1..Len(store) :
          /\ store[i].conversationId = last.conv
          /\ store[i].contextType = "archived"
          /\ store[i].relevanceScore = None
    /\ \A i \in 1..Len(store) : store[i].contextType # "summary"

\* C10: initializeConversation on an identifier that has state leaves the
\* window, totalWordCount, maxWordCount and the provenance tags as they are,
\* whatever tags it is called with; on an unseen identifier it creates a
\* state with an empty window, totalWordCount 0 and the configured capacity.
C10_InitializeIdempotent ==
    [][last'.op = "initializeConversation" =>
        IF Has(last'.conv)
        THEN conversations' = conversations
        ELSE /\ DOMAIN conversations' = DOMAIN conversations \cup {last'.conv}
             /\ \A c \in DOMAIN conversations :
                   conversations'[c] = conversations[c]
             /\ conversations'[last'.conv].currentContext = <<>>
             /\ conversations'[last'.conv].totalWordCount = 0
             /\ conversations'[last'.conv].maxWordCount = maxWordCount
             /\ conversations'[last'.conv].llm = last'.ret[1]
             /\ conversations'[last'.conv].userId = last'.ret[2]]_vars

\* C10 witness: initializeConversation was called with other tags on a
\* conversation that holds messages.
C10_Witness ==
    /\ last.op = "initializeConversation"
    /\ Has(last.conv)
    /\ Len(conversations[last.conv].currentContext) >= 2
    /\ conversations[last.conv].totalWordCount >= 2
    /\ last.ret # <<conversations[last.conv].llm,
                    conversations[last.conv].userId>>

\* A call of the orchestrator's createSummary that did not fail.
CreateSummarySuccess == last'.op = "createSummary" /\ last'.err = "none"

\* C11 as stated: a successful createSummary on the orchestrator returns the
\* identifier of the Summary record it persisted.
C11_ReturnsSummaryId ==
    [][CreateSummarySuccess => last'.ret = <<nextId>>]_vars

\* C11 amended: a successful createSummary on the orchestrator persists one
\* Summary record, under the identifier the adapter assigned, and returns
\* nothing to its caller.
C11_ReturnsNothing ==
    [][CreateSummarySuccess =>
        /\ last'.ret = <<>>
        /\ Len(store') = Len(store) + 1
        /\ store'[Len(store')]._id = nextId
        /\ store'[Len(store')].contextType = "summary"
        /\ store'[Len(store')].conversationId = last'.conv]_vars

\* C11 witness: a summary was persisted and its caller got nothing back.
C11_Witness ==
    /\ last.op = "createSummary"
    /\ last.err = "none"
    /\ last.ret = <<>>
    /\ \E i \in 1..Len(store) :
          /\ store[i].contextType = "summary"
          /\ store[i]._id = nextId - 1
          /\ store[i].conversationId = last.conv

\* Positions of the documents a createSummary step linked to its new summary.
Fetched == {i \in 1..Len(store) : store'[i].parentContextId = Some(nextId)}

\* Document f comes no later than document g under relevance descending,
\* timestamp descending.
NoLaterThan(f, g) ==
    LET sf == f.relevanceScore[1]
        sg == g.relevanceScore[1]
    IN  \/ sf[1] * sg[2] > sg[1] * sf[2]
        \/ sf[1] * sg[2] = sg[1] * sf[2] /\ f.timestamp >= g.timestamp

\* C12: a successful createSummary fetches at most 10 archived items of the
\* conversation with relevance >= 0.1 (the first 10 by relevance when there
\* are more), persists one new Summary, points the parent reference of every
\* fetched item at it, also when the item was linked to an older Summary, and
\* leaves every other document as it was.
C12_SummaryLinksFetchedItems ==
    [][CreateSummarySuccess =>
        LET c == last'.conv
            candidates == Summarizable(c)
        IN  /\ Len(store') = Len(store) + 1
            /\ store'[Len(store')].contextType = "summary"
            /\ store'[Len(store')]._id = nextId
            /\ Fetched \subseteq candidates
            /\ Cardinality(Fetched) <= 10
            /\ Cardinality(candidates) <= 10 => Fetched = candidates
            /\ Cardinality(candidates) > 10 => Cardinality(Fetched) = 10
            /\ \A f \in Fetched : \A g \in candidates \ Fetched :
                  NoLaterThan(store[f], store[g])
            /\ \A i \in Fetched :
                  store'[i] = [store[i] EXCEPT
                                  !.parentContextId = Some(nextId)]
            /\ \A i \in (1..Len(store)) \ Fetched : store'[i] = store[i]]_vars

\* C12 witness: a second summary took over items of the first, while the
\* conversation holds more than 10 items at or above the floor, so that one
\* of them is linked to neither or still to the first.
C12_Witness ==
    /\ last.op = "createSummary"
    /\ last.err = "none"
    /\ Cardinality(Summarizable(last.conv)) > 10
    /\ \E i, j \in 1..Len(store) :
          /\ store[i].contextType = "summary"
          /\ store[j].contextType = "summary"
          /\ store[i]._id < store[j]._id
          /\ store[j]._id = nextId - 1
          /\ Cardinality({k \in 1..Len(store) :
                 store[k].parentContextId = Some(store[j]._id)}) = 10
          /\ \E k \in Summarizable(last.conv) :
                store[k].parentContextId # Some(store[j]._id)

\* C13 as stated: an archived item, once persisted, is in the store in every
\* later state, and only its relevance score and its summary link change.
C13_ArchivedNeverDeleted ==
    [][\A i \in 1..Len(store) :
          store[i].contextType = "archived" =>
              \E j \in 1..Len(store') :
                  /\ store'[j]._id = store[i]._id
                  /\ store'[j] = [store[i] EXCEPT
                         !.relevanceScore = store'[j].relevanceScore,
                         !.parentContextId = store'[j].parentContextId]]_vars

\* The operations C14 names: summarization through the orchestrator or the
\* create-summary tool, scoring, archiving, retrieval.
SummaryPreservingCall ==
    last'.op \in {"createSummary", "create-summary", "addMessage",
                  "executeArchive", "executeRetrieval", "archive-context"}

\* C14 as stated: each summarization call creates exactly one Summary record
\* and none of these operations changes any field of an existing Summary
\* record.
C14_SummaryImmutable ==
    [][SummaryPreservingCall =>
        /\ \A i \in 1..Len(store) :
              store[i].contextType = "summary" =>
                  /\ i <= Len(store')
                  /\ store'[i] = store[i]
        /\ (last'.op \in {"createSummary", "create-summary"}
                /\ last'.err = "none") =>
              /\ Len(store') = Len(store) + 1
              /\ store'[Len(store')].contextType = "summary"]_vars

\* The operations of the orchestrator that take a conversation.
OrchestratorCall ==
    last'.op \in {"initializeConversation", "addMessage", "executeArchive",
                  "executeRetrieval", "createSummary", "getConversationStatus",
                  "removeConversation"}

\* C15: an orchestrator operation on conversation A leaves the state of every
\* other conversation B and every stored document of B as they are, whatever
\* the other caller did or holds on B.
C15_ConversationsIndependent ==
    [][OrchestratorCall =>
        \A B \in ConvIds \ {last'.conv} :
            /\ Has(B) <=> B \in DOMAIN conversations'
            /\ Has(B) => conversations'[B] = conversations[B]
            /\ \A i \in 1..Len(store) :
                  store[i].conversationId = B =>
                      i <= Len(store') /\ store'[i] = store[i]
            /\ \A i \in 1..Len(store') :
                  store'[i].conversationId = B => i <= Len(store)]_vars

\* C15 witness: addMessage on A has re-scored while the waiting caller holds
\* decisions on B, whose stored items carry the scores of B's own window.
C15_Witness ==
    /\ last.op = "addMessage"
    /\ ~RatioGT(conversations[last.conv], RETRIEVE_THRESHOLD)
    /\ other.pc = "decided"
    /\ other.held.conv # last.conv
    /\ Has(other.held.conv)
    /\ \E i \in 1..Len(store) :
          /\ store[i].conversationId = other.held.conv
          /\ store[i].relevanceScore # None

\* C16: whatever an interleaved caller did to the window in between,
\* executeArchive cuts Len(batch) entries off the front of the window as it
\* is now and persists the batch of its decision; a state is reachable
\* (C16_Witness) in which the entries cut off are not the batch.
C16_ArchiveCutsByCount ==
    [][(last'.op = "executeArchive" /\ last'.ret # <<>>) =>
        LET batch == held.archiveDecision.messagesToArchive
            k == Len(batch)
            window == conversations[held.conv].currentContext
        IN  /\ last'.ret[2] = Take(window, k)
            /\ conversations'[held.conv].currentContext =
                   SubSeq(window, k + 1, Len(window))
            /\ Len(store') = Len(store) + k
            /\ \A i \in 1..k :
                  store'[Len(store) + i].memories = <<batch[i]>>]_vars

\* C16 witness: executeArchive has just cut off entries that are not the
\* entries of its decision's batch.
C16_Witness ==
    /\ pc = "archived"
    /\ last.op = "executeArchive"
    /\ last.ret # <<>>
    /\ last.ret[1] >= 1
    /\ Len(last.ret[2]) = last.ret[1]
    /\ last.ret[2] # held.archiveDecision.messagesToArchive

\* C20: when the archive policy fires, the batch of the decision is the first
\* floor(0.3 * |window|) entries of the window in window order; a window of
\* fewer than 4 messages gives an empty batch with shouldArchive = TRUE.
C20_BatchIsOldestThirtyPercent ==
    (pc = "decided" /\ held.archiveDecision.shouldArchive) =>
        LET window == conversations[held.conv].currentContext
            batch == held.archiveDecision.messagesToArchive
        IN  /\ 10 * Len(batch) <= 3 * Len(window)
            /\ 3 * Len(window) < 10 * (Len(batch) + 1)
            /\ \A i \in 1..Len(batch) : batch[i] = window[i]
            /\ Len(window) < 4 => batch = <<>>

\* C20 witness: the policy fired on a window of three messages.
C20_Witness ==
    /\ pc = "decided"
    /\ held.archiveDecision.shouldArchive
    /\ held.archiveDecision.messagesToArchive = <<>>
    /\ Len(conversations[held.conv].currentContext) = 3

\* C17: the listed ids, which are the ids whose status can be read, start
\* empty; initialize and addMessage add their id, removeConversation drops
\* its id, and no other operation changes them; the list operation returns
\* exactly these ids; getStatus succeeds on exactly these ids and on any other
\* id fails with NotFound and creates no state.
C17_ListedIffInitializedNotRemoved ==
    /\ DOMAIN conversations = {}
    /\ [][LET before == DOMAIN conversations
              after == DOMAIN conversations'
              c == last'.conv
          IN  /\ last'.op \in {"initializeConversation", "addMessage"} =>
                    after = before \cup {c}
              /\ last'.op = "removeConversation" => after = before \ {c}
              /\ last'.op \notin {"initializeConversation", "addMessage",
                                  "removeConversation"} => after = before
              /\ last'.op = "getActiveConversations" =>
                    last'.ret = <<before>>
              /\ last'.op = "getConversationStatus" =>
                    /\ last'.err = "none" <=> c \in before
                    /\ c \notin before =>
                          /\ last'.err = "NotFound"
                          /\ conversations' = conversations]_vars

\* C17 witness: the list names only the second conversation after the first,
\* which had archived items of its own, was removed.
C17_Witness ==
    /\ last.op = "getActiveConversations"
    /\ last.ret = <<{"c2"}>>
    /\ \E i \in 1..Len(store) :
          store[i].conversationId = "c1" /\ store[i].llm = "claude"

\* C18: a successful status call returns at most one of the three band
\* advisories: nearly full above 0.9, otherwise consider archiving above 0.7,
\* otherwise consider retrieving below 0.2, otherwise none; it changes neither
\* the conversations nor the store.
C18_OneBandAdvisoryInPriorityOrder ==
    [][(last'.op = "getConversationStatus" /\ last'.err = "none") =>
         LET state == conversations[last'.conv]
             ret == last'.ret
             Bands == {"nearly full", "consider archiving",
                       "consider retrieving"}
             given == {i \in 1..Len(ret) : ret[i] \in Bands}
             expected ==
                 IF 10 * state.totalWordCount > 9 * state.maxWordCount
                 THEN {"nearly full"}
                 ELSE IF 10 * state.totalWordCount > 7 * state.maxWordCount
                 THEN {"consider archiving"}
                 ELSE IF 10 * state.totalWordCount < 2 * state.maxWordCount
                 THEN {"consider retrieving"}
                 ELSE {}
         IN  /\ Cardinality(given) <= 1
             /\ {ret[i] : i \in given} = expected
             /\ UNCHANGED <<conversations, store, nextId>>]_vars

\* C18 witness: a status read at a ratio of exactly 0.9, which is advised as
\* consider archiving.
C18_Witness ==
    /\ last.op = "getConversationStatus"
    /\ last.err = "none"
    /\ last.conv \in DOMAIN conversations
    /\ 10 * conversations[last.conv].totalWordCount =
          9 * conversations[last.conv].maxWordCount
    /\ last.ret = <<"consider archiving">>

\* The number of items executeArchive has stored for conversation c, where no
\* other writer stores items for it.
ArchivedCount(c) ==
    Cardinality({i \in 1..Len(store) :
                    /\ store[i].conversationId = c
                    /\ store[i].contextType = "archived"})

\* C19: a successful status call on a conversation for which executeArchive
\* has archived more than 20 items includes the consider-summarizing advisory.
C19_SummarizingAdvisedAboveTwenty ==
    (/\ last.op = "getConversationStatus"
     /\ last.err = "none"
     /\ ArchivedCount(last.conv) > 20) =>
        \E i \in 1..Len(last.ret) : last.ret[i] = "consider summarizing"

\* a/b >= c/d for relevance scores kept as pairs
ScoreGE(x, y) == x[1] * y[2] >= y[1] * x[2]

\* C21: a retrieve decision with shouldRetrieve = TRUE carries between 1 and
\* 5 items; each is a stored archived item of the decision's conversation
\* with relevance >= 0.2; they are in order of relevance descending and, at
\* equal relevance, newest first; no archived item of the conversation that
\* was left out has a higher relevance than an item included.
C21_RetrieveDecisionIsTopFive ==
    (pc = "decided" /\ held.retrievalDecision.shouldRetrieve) =>
        LET items == held.retrievalDecision.contextToRetrieve
            mine == {k \in 1..Len(store) :
                        /\ store[k].conversationId = held.conv
                        /\ store[k].contextType = "archived"}
        IN  /\ Len(items) \in 1..5
            /\ \A i \in 1..Len(items) :
                  /\ \E k \in mine : store[k] = items[i]
                  /\ items[i].relevanceScore # None
                  /\ ScoreGE(items[i].relevanceScore[1], <<2, 10>>)
            /\ \A i, j \in 1..Len(items) :
                  i < j =>
                     /\ ScoreGE(items[i].relevanceScore[1],
                                items[j].relevanceScore[1])
                     /\ ScoreGE(items[j].relevanceScore[1],
                                items[i].relevanceScore[1])
                          => items[i].timestamp >= items[j].timestamp
            /\ \A k \in mine :
                  (/\ store[k].relevanceScore # None
                   /\ \A i \in 1..Len(items) : items[i]._id # store[k]._id)
                  => \A i \in 1..Len(items) :
                        ScoreGE(items[i].relevanceScore[1],
                                store[k].relevanceScore[1])

\* C21 witness: five items were chosen out of more that pass the floor, two of
\* them equal in relevance and stored at different times.
C21_Witness ==
    /\ pc = "decided"
    /\ held.retrievalDecision.shouldRetrieve
    /\ LET items == held.retrievalDecision.contextToRetrieve
       IN  /\ Len(items) = 5
           /\ \E i \in 1..4 :
                 /\ items[i].relevanceScore = items[i + 1].relevanceScore
                 /\ items[i].timestamp > items[i + 1].timestamp
           /\ \E k \in 1..Len(store) :
                 /\ store[k].conversationId = held.conv
                 /\ ScoreGTE(store[k], <<2, 10>>)
                 /\ \A i \in 1..5 : items[i]._id # store[k]._id

\* C22: the tags of an archive decision whose batch text, lower-cased,
\* contains no vocabulary term are the single tag "general", without a
\* time-of-day tag, whatever hour was read.
C22_GeneralWhenNoTermMatches ==
    (/\ pc = "decided"
     /\ held.archiveDecision.shouldArchive
     /\ MatchedKeywords(toLowerCase(
            Join(held.archiveDecision.messagesToArchive, <<" ">>)), 1) = <<>>)
    => held.archiveDecision.tags = <<"general">>

\* The lower-cased pieces of a text between runs of whitespace, as a set.
TokenSet(text) == SeqSet(Split(toLowerCase(text)))

\* The re-score an addMessage step makes when it leaves the usage ratio at
\* or below 0.3.
RescoreStep ==
    /\ last'.op = "addMessage"
    /\ ~RatioGT(conversations'[last'.conv], RETRIEVE_THRESHOLD)

C24_EmptyItemScoresZero ==
    [][RescoreStep =>
         \A k \in 1..Len(store') :
            (/\ store'[k].conversationId = last'.conv
             /\ store'[k].contextType = "archived"
             /\ Join(store'[k].memories, <<" ">>) = <<>>
             /\ Join(conversations'[last'.conv].currentContext, <<" ">>)
                   # <<>>) =>
               /\ store'[k].relevanceScore # None
               /\ store'[k].relevanceScore[1][1] = 0]_vars

\* C25: an archived item without a relevance score is in no retrieve
\* decision, and is not among the items a successful createSummary links to
\* its summary.
C25_UnscoredFailsEveryFloor ==
    /\ [](\A i \in 1..Len(held.retrievalDecision.contextToRetrieve) :
             held.retrievalDecision.contextToRetrieve[i].relevanceScore # None)
    /\ [][CreateSummarySuccess =>
             \A i \in 1..Len(store) :
                store[i].relevanceScore = None => store'[i] = store[i]]_vars

\* C25 witness: a summary was created for a conversation that has linked
\* items and an archived item that was never scored and is linked to none.
C25_Witness ==
    /\ last.op = "createSummary"
    /\ last.err = "none"
    /\ \E i, k \in 1..Len(store) :
          /\ store[i].conversationId = last.conv
          /\ store[i].parentContextId # None
          /\ store[k].conversationId = last.conv
          /\ store[k].contextType = "archived"
          /\ store[k].relevanceScore = None
          /\ store[k].parentContextId = None

\* C26: totalWordCount of every conversation is at least 0 in every
\* reachable state, also when the caller executes an archive decision again.
C26_TotalWordCountNotNegative ==
    \A c \in DOMAIN conversations : conversations[c].totalWordCount >= 0

\* The number of entries of a window that are the text.
Copies(window, text) == Cardinality({i \in 1..Len(window) : window[i] = text})

\* C27: the window of a conversation holds no more copies of a text than
\* the conversation has archived items with that text, for a text that is not
\* a message any caller passes, so that every copy of it in the window was
\* put there by a retrieval of one of these items.
C27_NoSecondCopyWhileLive ==
    \A c \in DOMAIN conversations :
        \A k \in 1..Len(store) :
            (/\ store[k].conversationId = c
             /\ store[k].contextType = "archived"
             /\ Join(store[k].memories, <<" ">>) \notin Messages) =>
                Copies(conversations[c].currentContext,
                       Join(store[k].memories, <<" ">>))
                <= Cardinality({m \in 1..Len(store) :
                                  /\ store[m].conversationId = c
                                  /\ store[m].contextType = "archived"
                                  /\ store[m].memories = store[k].memories})

\* C29: after executeRetrieval has executed a retrieve decision that
\* addMessage returned with shouldRetrieve = TRUE, the usage ratio of the
\* conversation is below 0.8.
C29_RetrievalStaysBelowArchiveThreshold ==
    [][(ExecuteRetrievalStep /\ held.retrievalDecision.shouldRetrieve) =>
          5 * conversations'[held.conv].totalWordCount
             < 4 * conversations'[held.conv].maxWordCount]_vars

\* A retrieval that was executed: executeRetrieval on a decision with
\* shouldRetrieve = TRUE.
RetrievalExecuted == ExecuteRetrievalStep /\ held.retrievalDecision.shouldRetrieve

\* C27 amended: executeRetrieval puts the content of every item of its
\* decision in the window whether or not the window holds that content: for
\* every text, the window afterwards has as many more copies as the decision
\* has items with that content.
C27_RetrievalAddsCopyPerItem ==
    [][RetrievalExecuted =>
          LET before == conversations[held.conv].currentContext
              after == conversations'[held.conv].currentContext
              contents == Contents(held.retrievalDecision.contextToRetrieve)
          IN  \A text \in SeqSet(before) \cup SeqSet(contents) :
                 Copies(after, text) =
                    Copies(before, text) + Copies(contents, text)]_vars

\* C27 witness: the second conversation's window holds two copies of the
\* only archived item the conversation has.
C27_Witness ==
    /\ "c2" \in DOMAIN conversations
    /\ Copies(conversations["c2"].currentContext, <<"A">>) = 2
    /\ Cardinality({k \in 1..Len(store) : store[k].conversationId = "c2"}) = 1

\* C29 amended: executeRetrieval adds the word count of every item of its
\* decision to totalWordCount and leaves the capacity as it is, whatever
\* ratio results; the ratio afterwards can be 0.8 and more.
C29_RetrievalAddsEveryWordCount ==
    [][RetrievalExecuted =>
          /\ conversations'[held.conv].totalWordCount =
                conversations[held.conv].totalWordCount
                + WindowWords(Contents(held.retrievalDecision.contextToRetrieve))
          /\ conversations'[held.conv].maxWordCount =
                conversations[held.conv].maxWordCount]_vars

\* C29 witness: a retrieval left the conversation at a ratio of 1 or more.
C29_Witness ==
    /\ last.op = "executeRetrieval"
    /\ last.ret # <<>>
    /\ last.conv \in DOMAIN conversations
    /\ conversations[last.conv].totalWordCount
          >= conversations[last.conv].maxWordCount

\* A call the store made fail.
StoreFailed(op) == last'.op = op /\ last'.err = "StoreFailure"

\* C28: when addMessage fails on a store call of the policy evaluation, the
\* window and totalWordCount of the conversation are what they were before
\* the call; likewise when executeArchive fails on the store's archive call.
C28_FailureLeavesWindowUntouched ==
    [][/\ (StoreFailed("addMessage") /\ Has(last'.conv)) =>
             /\ conversations'[last'.conv].currentContext =
                   conversations[last'.conv].currentContext
             /\ conversations'[last'.conv].totalWordCount =
                   conversations[last'.conv].totalWordCount
       /\ (StoreFailed("addMessage") /\ ~Has(last'.conv)) =>
             conversations' = conversations
       /\ StoreFailed("executeArchive") => conversations' = conversations]_vars

\* C28 amended: when addMessage fails on a store call of the policy
\* evaluation, the conversation exists and its window and totalWordCount are
\* those before the call with the message appended and counted; when
\* executeArchive fails on the store's archive call, no conversation changed.
C28_FailedAddKeepsMessage ==
    [][/\ StoreFailed("addMessage") =>
             LET before == IF Has(last'.conv)
                           THEN conversations[last'.conv].currentContext
                           ELSE <<>>
                 counted == IF Has(last'.conv)
                            THEN conversations[last'.conv].totalWordCount
                            ELSE 0
                 after == conversations'[last'.conv].currentContext
             IN  /\ Len(after) = Len(before) + 1
                 /\ SubSeq(after, 1, Len(before)) = before
                 /\ conversations'[last'.conv].totalWordCount =
                       counted + Pieces(after[Len(after)])
       /\ StoreFailed("executeArchive") => conversations' = conversations]_vars

\* C28 witness: addMessage failed on a conversation that had a message, after
\* the re-score had reached some of the conversation's items and not others.
C28_Witness ==
    /\ last.op = "addMessage"
    /\ last.err = "StoreFailure"
    /\ Len(conversations[last.conv].currentContext) >= 2
    /\ \E i, k \in 1..Len(store) :
          /\ store[i].conversationId = last.conv
          /\ store[k].conversationId = last.conv
          /\ store[i].relevanceScore # None
          /\ store[k].relevanceScore = None

\* The texts conversation c has at hand in a state: the entries of its window
\* and the texts of its stored archived items.
Kept(convs, docs, c) ==
    (IF c \in DOMAIN convs THEN SeqSet(convs[c].currentContext) ELSE {})
    \cup {Join(docs[k].memories, <<" ">>) :
            k \in {i \in 1..Len(docs) : /\ docs[i].conversationId = c
                                        /\ docs[i].contextType = "archived"}}

====
